---- MODULE Spec2Model ----
(***************************************************************************)
(* A model of two components of Babylon.js:                                *)
(*   - _WebAudioEngine   (Audio/v2/webAudio/webAudioEngine.ts)             *)
(*   - _IblShadowsSpatialBlurPass                                          *)
(*                       (Rendering/IBLShadows/iblShadowsSpatialBlurPass.ts)*)
(* The engine is single threaded: every action below is one synchronous    *)
(* run of a handler, a method, or the continuation of an async function    *)
(* after an await.  The browser (audio context, promises, events, timers)  *)
(* is the environment and is modelled by the Platform* actions.            *)
(***************************************************************************)
EXTENDS Integers, FiniteSets, Sequences, TLC

\* ------------------------------------------------------------------ bounds
\* statechange events dispatched by the context and not yet delivered
MaxEvents == 2
\* calls of init() on one engine (CreateAudioEngineAsync makes the first)
MaxInits == 2
\* document click events
MaxClicks == 2
\* calls of startSoundInstanceOnNextUserInteraction
MaxRegs == 3
\* saturation of the count of audioContext.resume() invocations made by
\* engine.resume() since the last handled statechange to "running"
MaxInvokes == 2
\* calls of formatIsValid, per format
MaxFormatCalls == 3
\* calls of getDebugPassPP
MaxDebugGets == 2

Instances == {"i1", "i2"}
InitIds == 1..MaxInits
SuspendedStates == {"suspended", "interrupted"}

VARIABLES
    \* --- construction
    options,            \* the options passed to the constructor
    audioContext,       \* readonly audioContext: which context the engine uses
    contextsCreated,    \* number of `new AudioContext()` evaluated by the engine
    \* --- the platform's audio context
    ctxState,           \* audioContext.state
    ctxEverRunning,     \* the context has been in state "running"
    eventQueue,         \* statechange events dispatched, not yet delivered
    \* --- listeners
    clickListener,      \* document "click" listener registered
    stateListener,      \* context "statechange" listener registered
    \* --- engine fields
    resumeOnInteraction,    \* _resumeOnInteraction
    resumeOnPause,          \* _resumeOnPause
    audioContextStarted,    \* _audioContextStarted
    resumePromise,          \* _resumePromise: "null" or the state of the promise
    resumeOnPauseTimerId,   \* _resumeOnPauseTimerId (0 is null)
    activeTimers,           \* interval timers of the platform that are armed
    volume,                 \* _volume
    mainOutputVolume,       \* _mainOutput.volume, when the main output exists
    soundInstances,         \* _soundInstancesToStartOnNextUserInteraction
    mainOutput,             \* _mainOutput (0 is null)
    mainBuses,              \* main buses created by CreateMainAudioBusAsync
    isReadyPromise,         \* "pending" or "resolved"
    disposed,               \* dispose() has been called
    \* --- async functions in flight
    initPc,             \* position of each init() call
    engineReturned,     \* CreateAudioEngineAsync has returned the engine
    handlersPending,    \* _onUserInteraction runs awaiting audioContext.resume()
    handlersReady,      \* _onUserInteraction runs whose await has resolved
    \* --- history
    clicks,             \* click events delivered to the listener
    regCount,           \* startSoundInstanceOnNextUserInteraction calls, per instance
    addCount,           \* of those, the calls that added the instance to the set
    playCount,          \* play() calls, per instance
    readyTransitions,   \* pending -> resolved transitions of isReadyPromise
    winInvokes,         \* audioContext.resume() invocations by engine.resume()
                        \* calls made while not running, since the last handled
                        \* statechange to "running"
    winReturned,        \* what those calls returned
    resumedThisSuspension,  \* the engine invoked audioContext.resume() since the
                            \* context last left "running"
    tickPhase,          \* flips at every tick of the resume-on-pause timer
    rearmed,            \* a timer has been armed while one was armed
    pauseCalled,        \* the caller has paused and neither the caller has
                        \* resumed nor the user has clicked since
    \* --- formats
    validFormats,       \* _validFormats
    invalidFormats,     \* _invalidFormats
    probeCount,         \* canPlayType probes made, per format
    callCount,          \* formatIsValid calls made, per format
    firstResult,        \* what the first formatIsValid call returned, per format
    lastCall,           \* the latest formatIsValid call: format, result, probed
    \* --- the blur pass
    worldScale,         \* _worldScale
    debugEnabled,       \* debugEnabled
    debugSizeParams,    \* _debugSizeParams
    debugPassPP,        \* _debugPassPP (0 is undefined), else the post-process
    ppConstructed,      \* PostProcess objects constructed by the pass
    outputReady,        \* _outputPP.isReady()
    debugReady,         \* _debugPassPP.isReady(), when it exists
    prePassRenderer,    \* scene.prePassRenderer: "none" or its two indices
    blurParameters,     \* the uniform set by the latest on-apply callback
    boundSamplers,      \* the samplers bound by the latest on-apply callback
    applied,            \* on-apply callbacks run
    getDebugCalls,      \* getDebugPassPP() calls
    debugReturned,      \* the post-processes getDebugPassPP() has returned
    isReadyResult,      \* what the latest isReady() call returned
    passDisposed        \* dispose() has been called on the pass

ctorVars == <<options, audioContext, contextsCreated>>
ctxVars == <<ctxState, ctxEverRunning, eventQueue>>
listenerVars == <<clickListener, stateListener>>
optionVars == <<resumeOnInteraction, resumeOnPause>>
timerVars == <<resumeOnPauseTimerId, activeTimers, rearmed>>
volumeVars == <<volume, mainOutputVolume>>
initVars == <<mainOutput, mainBuses, isReadyPromise, initPc, engineReturned, readyTransitions>>
handlerVars == <<handlersPending, handlersReady>>
instanceVars == <<soundInstances, regCount, addCount, playCount>>
windowVars == <<winInvokes, winReturned>>

engineVars == <<ctorVars, ctxVars, listenerVars, optionVars, audioContextStarted,
                resumePromise, timerVars, initVars, handlerVars, instanceVars,
                windowVars, disposed, clicks, resumedThisSuspension, tickPhase,
                volumeVars, pauseCalled>>

formatVars == <<validFormats, invalidFormats, probeCount, callCount, firstResult, lastCall>>

blurVars == <<worldScale, debugEnabled, debugSizeParams, debugPassPP, ppConstructed,
              outputReady, debugReady, prePassRenderer, blurParameters, boundSamplers,
              applied, getDebugCalls, debugReturned, isReadyResult, passDisposed>>

\* what the engine's resume, click and init code neither reads nor writes
nonEngineVars == <<formatVars, blurVars>>

vars == <<engineVars, formatVars, blurVars>>

\* ------------------------------------------------------------ construction

\* A mutation of the constructor: the supplied context is ignored.
ConstructorIgnoresOption(opts) ==
    [audioContext |-> "created", created |-> 1]

\* constructor: this.audioContext = options?.audioContext ?? new AudioContext()
Constructor(opts) ==
    IF opts.audioContext # "none"
    THEN [audioContext |-> opts.audioContext, created |-> 0]
    ELSE [audioContext |-> "created", created |-> 1]

EngineInit ==
    /\ options \in [audioContext : {"none", "supplied"}]
    /\ audioContext = Constructor(options).audioContext
    /\ contextsCreated = Constructor(options).created
    \* a new context starts suspended; a supplied one is in either state
    /\ ctxState \in (IF options.audioContext = "none"
                     THEN {"suspended"} ELSE {"suspended", "running"})
    /\ ctxEverRunning = (ctxState = "running")
    /\ eventQueue = 0
    /\ clickListener = FALSE
    /\ stateListener = FALSE
    /\ resumeOnInteraction = TRUE
    /\ resumeOnPause = TRUE
    /\ audioContextStarted = FALSE
    /\ resumePromise = "null"
    /\ resumeOnPauseTimerId = 0
    /\ activeTimers = {}
    /\ soundInstances = {}
    /\ mainOutput = 0
    /\ mainBuses = {}
    /\ isReadyPromise = "pending"
    /\ disposed = FALSE
    /\ initPc = [i \in InitIds |-> "idle"]
    /\ engineReturned = FALSE
    /\ handlersPending = 0
    /\ handlersReady = 0
    /\ clicks = 0
    /\ regCount = [i \in Instances |-> 0]
    /\ addCount = [i \in Instances |-> 0]
    /\ playCount = [i \in Instances |-> 0]
    /\ readyTransitions = 0
    /\ winInvokes = 0
    /\ winReturned = {}
    /\ resumedThisSuspension = FALSE
    /\ tickPhase = 0
    /\ rearmed = FALSE
    /\ pauseCalled = FALSE
    /\ volume = 1
    /\ mainOutputVolume = 1

\* ------------------------------------------------------------------ init

\* A mutation of init: the readiness promise is resolved before the audio
\* context has been initialised (the await is dropped).
initResolvesEarly(i, roi, rop) ==
    /\ initPc[i] = "idle"
    /\ \A j \in InitIds : j < i => initPc[j] # "idle"
    /\ resumeOnInteraction' = roi
    /\ resumeOnPause' = rop
    /\ clickListener' = TRUE
    /\ stateListener' = TRUE
    /\ initPc' = [initPc EXCEPT ![i] = "awaitOutput"]
    /\ isReadyPromise' = "resolved"
    /\ readyTransitions' = IF isReadyPromise = "pending"
                           THEN readyTransitions + 1 ELSE readyTransitions
    /\ UNCHANGED <<nonEngineVars, ctorVars, volumeVars, pauseCalled, ctxVars, audioContextStarted, resumePromise, timerVars,
                   mainOutput, mainBuses, engineReturned,
                   handlerVars, instanceVars, windowVars, disposed, clicks,
                   resumedThisSuspension, tickPhase>>

\* init(options), up to its first suspension: the three options are stored,
\* the click listener is added, and _initAudioContext runs synchronously up
\* to `await _CreateMainAudioOutputAsync(this)`, adding the statechange
\* listener.  addEventListener with the same callback registers it once.
init(i, roi, rop) ==
    /\ initPc[i] = "idle"
    /\ \A j \in InitIds : j < i => initPc[j] # "idle"
    /\ resumeOnInteraction' = roi
    /\ resumeOnPause' = rop
    /\ clickListener' = TRUE
    /\ stateListener' = TRUE
    /\ initPc' = [initPc EXCEPT ![i] = "awaitOutput"]
    /\ UNCHANGED <<nonEngineVars, ctorVars, volumeVars, pauseCalled, ctxVars, audioContextStarted, resumePromise, timerVars,
                   mainOutput, mainBuses, isReadyPromise, engineReturned,
                   readyTransitions, handlerVars, instanceVars, windowVars,
                   disposed, clicks, resumedThisSuspension, tickPhase>>

\* _initAudioContext after `await _CreateMainAudioOutputAsync(this)`: the
\* main output is assigned, it is given the engine's volume, and
\* CreateMainAudioBusAsync is called.
initAudioContextOutput(i) ==
    /\ initPc[i] = "awaitOutput"
    /\ mainOutput' = i
    /\ mainOutputVolume' = volume
    /\ initPc' = [initPc EXCEPT ![i] = "awaitBus"]
    /\ UNCHANGED <<nonEngineVars, ctorVars, volume, pauseCalled, ctxVars, listenerVars, optionVars, audioContextStarted,
                   resumePromise, timerVars, mainBuses, isReadyPromise,
                   engineReturned, readyTransitions, handlerVars, instanceVars,
                   windowVars, disposed, clicks, resumedThisSuspension, tickPhase>>

\* _initAudioContext after `await CreateMainAudioBusAsync("default", this)`:
\* the default bus exists and _initAudioContext's promise resolves.
initAudioContextBus(i) ==
    /\ initPc[i] = "awaitBus"
    /\ mainBuses' = mainBuses \cup {i}
    /\ initPc' = [initPc EXCEPT ![i] = "awaitInitAudioContext"]
    /\ UNCHANGED <<nonEngineVars, ctorVars, volumeVars, pauseCalled, ctxVars, listenerVars, optionVars, audioContextStarted,
                   resumePromise, timerVars, mainOutput, isReadyPromise,
                   engineReturned, readyTransitions, handlerVars, instanceVars,
                   windowVars, disposed, clicks, resumedThisSuspension, tickPhase>>

\* init after `await this._initAudioContext()`: this._resolveIsReadyPromise().
\* Resolving a promise that is already resolved does nothing.
initResolve(i) ==
    /\ initPc[i] = "awaitInitAudioContext"
    /\ isReadyPromise' = "resolved"
    /\ readyTransitions' = IF isReadyPromise = "pending"
                           THEN readyTransitions + 1 ELSE readyTransitions
    /\ initPc' = [initPc EXCEPT ![i] = "done"]
    /\ UNCHANGED <<nonEngineVars, ctorVars, volumeVars, pauseCalled, ctxVars, listenerVars, optionVars, audioContextStarted,
                   resumePromise, timerVars, mainOutput, mainBuses, engineReturned,
                   handlerVars, instanceVars, windowVars, disposed, clicks,
                   resumedThisSuspension, tickPhase>>

\* CreateAudioEngineAsync after `await engine.init(options)`: return engine.
\* Its init call is the engine's first.
CreateAudioEngineAsyncReturn ==
    /\ initPc[1] = "done"
    /\ ~engineReturned
    /\ engineReturned' = TRUE
    /\ UNCHANGED <<nonEngineVars, ctorVars, volumeVars, pauseCalled, ctxVars, listenerVars, optionVars, audioContextStarted,
                   resumePromise, timerVars, mainOutput, mainBuses, isReadyPromise,
                   initPc, readyTransitions, handlerVars, instanceVars, windowVars,
                   disposed, clicks, resumedThisSuspension, tickPhase>>

\* ---------------------------------------------------------------- volume

Volumes == {0, 1}

\* A mutation of the volume setter: the value is not forwarded to the main
\* output.
setVolumeKeepsOutput(value) ==
    /\ volume # value
    /\ volume' = value
    /\ UNCHANGED <<nonEngineVars, ctorVars, mainOutputVolume, pauseCalled, ctxVars,
                   listenerVars, optionVars, audioContextStarted, resumePromise,
                   timerVars, initVars, handlerVars, instanceVars, windowVars,
                   disposed, clicks, resumedThisSuspension, tickPhase>>

\* set volume(value): nothing if the value is the current one; otherwise
\* _volume is set and, if the main output exists, so is its volume.
setVolume(value) ==
    /\ volume # value
    /\ volume' = value
    /\ mainOutputVolume' = IF mainOutput # 0 THEN value ELSE mainOutputVolume
    /\ UNCHANGED <<nonEngineVars, ctorVars, pauseCalled, ctxVars,
                   listenerVars, optionVars, audioContextStarted, resumePromise,
                   timerVars, initVars, handlerVars, instanceVars, windowVars,
                   disposed, clicks, resumedThisSuspension, tickPhase>>

\* --------------------------------------------------------------- dispose

\* A mutation of dispose: the document click listener is not removed.
disposeKeepsClickListener ==
    /\ ~disposed
    /\ disposed' = TRUE
    /\ IF ctxState # "closed"
       THEN /\ ctxState' = "closed"
            /\ eventQueue' = IF eventQueue < MaxEvents THEN eventQueue + 1 ELSE eventQueue
       ELSE UNCHANGED <<ctxState, eventQueue>>
    /\ stateListener' = FALSE
    /\ UNCHANGED <<nonEngineVars, ctorVars, volumeVars, pauseCalled, ctxEverRunning,
                   clickListener, optionVars, audioContextStarted,
                   resumePromise, timerVars, initVars, handlerVars, instanceVars,
                   windowVars, clicks, resumedThisSuspension, tickPhase>>

\* dispose(): close the context unless it is closed, remove both listeners.
\* The close dispatches a statechange event.
dispose ==
    /\ ~disposed
    /\ disposed' = TRUE
    /\ IF ctxState # "closed"
       THEN /\ ctxState' = "closed"
            /\ eventQueue' = IF eventQueue < MaxEvents THEN eventQueue + 1 ELSE eventQueue
       ELSE UNCHANGED <<ctxState, eventQueue>>
    /\ clickListener' = FALSE
    /\ stateListener' = FALSE
    /\ UNCHANGED <<nonEngineVars, ctorVars, volumeVars, pauseCalled, ctxEverRunning, optionVars, audioContextStarted,
                   resumePromise, timerVars, initVars, handlerVars, instanceVars,
                   windowVars, clicks, resumedThisSuspension, tickPhase>>

\* ---------------------------------------------------------- pause, resume

\* pause(): await this.audioContext.suspend().  Suspending a running context
\* makes it "suspended" and dispatches statechange; on a context that is not
\* running it changes nothing.
pause ==
    /\ ctxState = "running"
    /\ eventQueue < MaxEvents
    /\ ctxState' = "suspended"
    /\ eventQueue' = eventQueue + 1
    /\ resumedThisSuspension' = FALSE
    /\ pauseCalled' = TRUE
    /\ UNCHANGED <<nonEngineVars, ctorVars, volumeVars, ctxEverRunning, listenerVars, optionVars,
                   audioContextStarted, resumePromise, timerVars, initVars,
                   handlerVars, instanceVars, windowVars, disposed, clicks, tickPhase>>

\* What a resume() call adds to the record of the calls made while the
\* context is not running.
RecordResumeCall(invoked, returned) ==
    IF ctxState # "running"
    THEN /\ winInvokes' = IF invoked /\ winInvokes < MaxInvokes
                          THEN winInvokes + 1 ELSE winInvokes
         /\ winReturned' = winReturned \cup {returned}
    ELSE UNCHANGED windowVars

\* resume(): with a cached promise, return it; otherwise store the promise of
\* audioContext.resume() in _resumePromise and return nothing (the async
\* function's own promise is then fulfilled with undefined at once and does
\* not follow the resume in flight).
resume ==
    IF resumePromise # "null"
    THEN /\ UNCHANGED <<resumePromise, resumedThisSuspension>>
         /\ RecordResumeCall(FALSE, "inflight")
    ELSE /\ resumePromise' = "pending"
         /\ resumedThisSuspension' = TRUE
         /\ RecordResumeCall(TRUE, "undefined")

\* A caller's engine.resume().
ResumeCall ==
    /\ resume
    /\ pauseCalled' = FALSE
    /\ UNCHANGED <<nonEngineVars, ctorVars, volumeVars, ctxVars, listenerVars, optionVars, audioContextStarted,
                   timerVars, initVars, handlerVars, instanceVars, disposed, clicks,
                   tickPhase>>

\* A tick of the interval timer armed by _onAudioContextStateChange: its
\* callback is `this.resume()`.
TimerTick ==
    /\ activeTimers # {}
    /\ resume
    /\ tickPhase' = 1 - tickPhase
    /\ UNCHANGED <<nonEngineVars, ctorVars, volumeVars, pauseCalled, ctxVars, listenerVars, optionVars, audioContextStarted,
                   timerVars, initVars, handlerVars, instanceVars, disposed, clicks>>

\* ------------------------------------------------------------ statechange

\* setInterval returns an id that no armed timer has.
NewTimerId(active) ==
    CHOOSE t \in 1..(Cardinality(active) + 1) : t \notin active

\* A mutation of _onAudioContextStateChange: the timer is armed whether or
\* not the context has been seen running.
onAudioContextStateChangeBeforeStart ==
    IF ctxState = "running"
    THEN /\ activeTimers' = activeTimers \ {resumeOnPauseTimerId}
         /\ audioContextStarted' = TRUE
         /\ resumePromise' = "null"
         /\ winInvokes' = 0
         /\ winReturned' = {}
         /\ UNCHANGED <<resumeOnPauseTimerId, rearmed>>
    ELSE IF ctxState \in SuspendedStates /\ resumeOnPause
    THEN /\ resumeOnPauseTimerId' = NewTimerId(activeTimers \ {resumeOnPauseTimerId})
         /\ activeTimers' = (activeTimers \ {resumeOnPauseTimerId})
                            \cup {NewTimerId(activeTimers \ {resumeOnPauseTimerId})}
         /\ rearmed' = (rearmed \/ resumeOnPauseTimerId \in activeTimers)
         /\ UNCHANGED <<audioContextStarted, resumePromise, windowVars>>
    ELSE UNCHANGED <<timerVars, audioContextStarted, resumePromise, windowVars>>

\* A mutation of _onAudioContextStateChange: the armed timer is not cleared
\* before another is armed.
onAudioContextStateChangeKeepsTimer ==
    IF ctxState = "running"
    THEN /\ activeTimers' = activeTimers \ {resumeOnPauseTimerId}
         /\ audioContextStarted' = TRUE
         /\ resumePromise' = "null"
         /\ winInvokes' = 0
         /\ winReturned' = {}
         /\ UNCHANGED <<resumeOnPauseTimerId, rearmed>>
    ELSE IF ctxState \in SuspendedStates /\ audioContextStarted /\ resumeOnPause
    THEN /\ resumeOnPauseTimerId' = NewTimerId(activeTimers)
         /\ activeTimers' = activeTimers \cup {NewTimerId(activeTimers)}
         /\ rearmed' = (rearmed \/ resumeOnPauseTimerId \in activeTimers)
         /\ UNCHANGED <<audioContextStarted, resumePromise, windowVars>>
    ELSE UNCHANGED <<timerVars, audioContextStarted, resumePromise, windowVars>>

\* _onAudioContextStateChange: it reads the state the context has now.
onAudioContextStateChange ==
    IF ctxState = "running"
    THEN /\ activeTimers' = activeTimers \ {resumeOnPauseTimerId}
         /\ audioContextStarted' = TRUE
         /\ resumePromise' = "null"
         /\ winInvokes' = 0
         /\ winReturned' = {}
         /\ UNCHANGED <<resumeOnPauseTimerId, rearmed>>
    ELSE IF ctxState \in SuspendedStates /\ audioContextStarted /\ resumeOnPause
    THEN /\ resumeOnPauseTimerId' = NewTimerId(activeTimers \ {resumeOnPauseTimerId})
         /\ activeTimers' = (activeTimers \ {resumeOnPauseTimerId})
                            \cup {NewTimerId(activeTimers \ {resumeOnPauseTimerId})}
         /\ rearmed' = (rearmed \/ resumeOnPauseTimerId \in activeTimers)
         /\ UNCHANGED <<audioContextStarted, resumePromise, windowVars>>
    ELSE UNCHANGED <<timerVars, audioContextStarted, resumePromise, windowVars>>

\* Delivery of one statechange event: the listener runs if it is registered.
StateChangeEvent ==
    /\ eventQueue > 0
    /\ eventQueue' = eventQueue - 1
    /\ IF stateListener
       THEN onAudioContextStateChange
       ELSE UNCHANGED <<timerVars, audioContextStarted, resumePromise, windowVars>>
    /\ UNCHANGED <<nonEngineVars, ctorVars, volumeVars, pauseCalled, ctxState, ctxEverRunning, listenerVars, optionVars,
                   initVars, handlerVars, instanceVars, disposed, clicks,
                   resumedThisSuspension, tickPhase>>

\* ------------------------------------------------------- user interaction

\* A mutation of _onUserInteraction: the option is not consulted.
onUserInteractionIgnoresOption ==
    /\ handlersPending' = handlersPending + 1
    /\ resumedThisSuspension' = TRUE
    /\ UNCHANGED handlersReady

\* _onUserInteraction up to `await this.audioContext.resume()`.
onUserInteraction ==
    IF resumeOnInteraction
    THEN /\ handlersPending' = handlersPending + 1
         /\ resumedThisSuspension' = TRUE
         /\ UNCHANGED handlersReady
    ELSE UNCHANGED <<handlerVars, resumedThisSuspension>>

\* A click on the document, delivered to the listener.
ClickEvent ==
    /\ clickListener
    /\ clicks < MaxClicks
    /\ clicks' = clicks + 1
    /\ onUserInteraction
    /\ pauseCalled' = FALSE
    /\ UNCHANGED <<nonEngineVars, ctorVars, volumeVars, ctxVars, listenerVars, optionVars, audioContextStarted,
                   resumePromise, timerVars, initVars, instanceVars, windowVars,
                   disposed, tickPhase>>

\* The while loop of _onUserInteraction over the set's iterator: each
\* instance is played, then deleted from the set.
RECURSIVE DrainLoop(_, _)
DrainLoop(pending, plays) ==
    IF pending = {}
    THEN [pending |-> pending, plays |-> plays]
    ELSE LET instance == CHOOSE x \in pending : TRUE
         IN DrainLoop(pending \ {instance},
                      [plays EXCEPT ![instance] = plays[instance] + 1])

\* A mutation of the drain: the played instances stay in the set.
onUserInteractionKeepsInstances ==
    /\ handlersReady > 0
    /\ handlersReady' = handlersReady - 1
    /\ playCount' = DrainLoop(soundInstances, playCount).plays
    /\ UNCHANGED <<soundInstances, handlersPending, regCount, addCount>>

\* _onUserInteraction after `await this.audioContext.resume()` has resolved.
onUserInteractionDrain ==
    /\ handlersReady > 0
    /\ handlersReady' = handlersReady - 1
    /\ soundInstances' = DrainLoop(soundInstances, playCount).pending
    /\ playCount' = DrainLoop(soundInstances, playCount).plays
    /\ UNCHANGED <<handlersPending, regCount, addCount>>

ClickContinuation ==
    /\ onUserInteractionDrain
    /\ UNCHANGED <<nonEngineVars, ctorVars, volumeVars, pauseCalled, ctxVars, listenerVars, optionVars, audioContextStarted,
                   resumePromise, timerVars, initVars, windowVars, disposed, clicks,
                   resumedThisSuspension, tickPhase>>

RECURSIVE SumOver(_, _)
SumOver(f, S) ==
    IF S = {} THEN 0
    ELSE LET x == CHOOSE y \in S : TRUE IN f[x] + SumOver(f, S \ {x})

\* startSoundInstanceOnNextUserInteraction(soundInstance): Set.add.
startSoundInstanceOnNextUserInteraction(soundInstance) ==
    /\ SumOver(regCount, Instances) < MaxRegs
    /\ soundInstances' = soundInstances \cup {soundInstance}
    /\ regCount' = [regCount EXCEPT ![soundInstance] = regCount[soundInstance] + 1]
    /\ addCount' = IF soundInstance \in soundInstances THEN addCount
                   ELSE [addCount EXCEPT ![soundInstance] = addCount[soundInstance] + 1]
    /\ UNCHANGED <<nonEngineVars, ctorVars, volumeVars, pauseCalled, ctxVars, listenerVars, optionVars, audioContextStarted,
                   resumePromise, timerVars, initVars, handlerVars, playCount,
                   windowVars, disposed, clicks, resumedThisSuspension, tickPhase>>

\* --------------------------------------------------------------- platform

\* The context starts or resumes: from "interrupted" when the interruption
\* ends, from "suspended" at its first start or when a resume is requested.
\* Every pending promise of audioContext.resume() is resolved.
PlatformRunning ==
    /\ ctxState \in SuspendedStates
    /\ eventQueue < MaxEvents
    /\ \/ ctxState = "interrupted"
       \/ ~ctxEverRunning
       \/ resumePromise = "pending"
       \/ handlersPending > 0
    /\ ctxState' = "running"
    /\ ctxEverRunning' = TRUE
    /\ eventQueue' = eventQueue + 1
    /\ resumePromise' = IF resumePromise = "pending" THEN "resolved" ELSE resumePromise
    /\ handlersReady' = handlersReady + handlersPending
    /\ handlersPending' = 0
    /\ UNCHANGED <<nonEngineVars, ctorVars, volumeVars, pauseCalled, listenerVars, optionVars, audioContextStarted, timerVars,
                   initVars, instanceVars, windowVars, disposed, clicks,
                   resumedThisSuspension, tickPhase>>

\* audioContext.resume() on a running context: its promise resolves and the
\* state does not change.
PlatformResolve ==
    /\ ctxState = "running"
    /\ resumePromise = "pending" \/ handlersPending > 0
    /\ resumePromise' = IF resumePromise = "pending" THEN "resolved" ELSE resumePromise
    /\ handlersReady' = handlersReady + handlersPending
    /\ handlersPending' = 0
    /\ UNCHANGED <<nonEngineVars, ctorVars, volumeVars, pauseCalled, ctxVars, listenerVars, optionVars, audioContextStarted,
                   timerVars, initVars, instanceVars, windowVars, disposed, clicks,
                   resumedThisSuspension, tickPhase>>

\* The promise held in _resumePromise is rejected (the context is closed, or
\* the platform refuses to start it).
PlatformRejectResume ==
    /\ ctxState # "running"
    /\ resumePromise = "pending"
    /\ resumePromise' = "rejected"
    /\ UNCHANGED <<nonEngineVars, ctorVars, volumeVars, pauseCalled, ctxVars, listenerVars, optionVars, audioContextStarted,
                   timerVars, initVars, handlerVars, instanceVars, windowVars,
                   disposed, clicks, resumedThisSuspension, tickPhase>>

\* The promise a click handler awaits is rejected: the handler ends there.
PlatformRejectHandler ==
    /\ ctxState # "running"
    /\ handlersPending > 0
    /\ handlersPending' = handlersPending - 1
    /\ UNCHANGED <<nonEngineVars, ctorVars, volumeVars, pauseCalled, ctxVars, listenerVars, optionVars, audioContextStarted,
                   resumePromise, timerVars, initVars, handlersReady, instanceVars,
                   windowVars, disposed, clicks, resumedThisSuspension, tickPhase>>

\* The platform pauses a running context (audio focus lost, tab hidden).
PlatformInterrupt(s) ==
    /\ ctxState = "running"
    /\ eventQueue < MaxEvents
    /\ ctxState' = s
    /\ eventQueue' = eventQueue + 1
    /\ resumedThisSuspension' = FALSE
    /\ UNCHANGED <<nonEngineVars, ctorVars, volumeVars, pauseCalled, ctxEverRunning, listenerVars, optionVars,
                   audioContextStarted, resumePromise, timerVars, initVars,
                   handlerVars, instanceVars, windowVars, disposed, clicks, tickPhase>>

\* ---------------------------------------------------------------- formats

\* formatMimeTypeMap
FormatMimeTypeMap ==
    ("aac" :> "audio/aac") @@ ("ac3" :> "audio/ac3") @@ ("flac" :> "audio/flac")
    @@ ("m4a" :> "audio/mp4") @@ ("mp3" :> "audio/mpeg; codecs=mp3")
    @@ ("mp4" :> "audio/mp4") @@ ("ogg" :> "audio/ogg; codecs=vorbis")
    @@ ("wav" :> "audio/wav") @@ ("webm" :> "audio/webm; codecs=vorbis")

\* the formats the calls are made with: two keys of the table, one that is not
Formats == {"mp3", "ogg", "xyz"}

\* what HTMLMediaElement.canPlayType answers
CanPlayTypeAnswers == {"", "maybe", "probably"}

FormatInit ==
    /\ validFormats = {}
    /\ invalidFormats = {}
    /\ probeCount = [f \in Formats |-> 0]
    /\ callCount = [f \in Formats |-> 0]
    /\ firstResult = [f \in Formats |-> "none"]
    /\ lastCall = [format |-> "none", result |-> FALSE, probed |-> FALSE]

\* A mutation of formatIsValid: a failed probe is not remembered.
FormatIsValidForgetsRejection(valid, invalid, format, answer) ==
    IF format \in valid
    THEN [result |-> TRUE, valid |-> valid, invalid |-> invalid, probed |-> FALSE]
    ELSE IF format \in invalid
    THEN [result |-> FALSE, valid |-> valid, invalid |-> invalid, probed |-> FALSE]
    ELSE IF format \notin DOMAIN FormatMimeTypeMap
    THEN [result |-> FALSE, valid |-> valid, invalid |-> invalid, probed |-> FALSE]
    ELSE IF answer = ""
    THEN [result |-> FALSE, valid |-> valid, invalid |-> invalid, probed |-> TRUE]
    ELSE [result |-> TRUE, valid |-> valid \cup {format}, invalid |-> invalid,
          probed |-> TRUE]

\* A mutation of formatIsValid: a format without a MIME type is probed like
\* any other.
FormatIsValidProbesUnknown(valid, invalid, format, answer) ==
    IF format \in valid
    THEN [result |-> TRUE, valid |-> valid, invalid |-> invalid, probed |-> FALSE]
    ELSE IF format \in invalid
    THEN [result |-> FALSE, valid |-> valid, invalid |-> invalid, probed |-> FALSE]
    ELSE IF answer = ""
    THEN [result |-> FALSE, valid |-> valid, invalid |-> invalid \cup {format},
          probed |-> TRUE]
    ELSE [result |-> TRUE, valid |-> valid \cup {format}, invalid |-> invalid,
          probed |-> TRUE]

\* formatIsValid(format), `answer` being what canPlayType answers if asked:
\* the value returned, the two sets afterwards, and whether it asked.
FormatIsValid(valid, invalid, format, answer) ==
    IF format \in valid
    THEN [result |-> TRUE, valid |-> valid, invalid |-> invalid, probed |-> FALSE]
    ELSE IF format \in invalid
    THEN [result |-> FALSE, valid |-> valid, invalid |-> invalid, probed |-> FALSE]
    ELSE IF format \notin DOMAIN FormatMimeTypeMap
    THEN [result |-> FALSE, valid |-> valid, invalid |-> invalid, probed |-> FALSE]
    ELSE IF answer = ""
    THEN [result |-> FALSE, valid |-> valid, invalid |-> invalid \cup {format},
          probed |-> TRUE]
    ELSE [result |-> TRUE, valid |-> valid \cup {format}, invalid |-> invalid,
          probed |-> TRUE]

formatIsValid(format, answer) ==
    /\ callCount[format] < MaxFormatCalls
    /\ LET r == FormatIsValid(validFormats, invalidFormats, format, answer)
       IN /\ validFormats' = r.valid
          /\ invalidFormats' = r.invalid
          /\ probeCount' = IF r.probed
                           THEN [probeCount EXCEPT ![format] = probeCount[format] + 1]
                           ELSE probeCount
          /\ firstResult' = IF callCount[format] = 0
                            THEN [firstResult EXCEPT ![format] =
                                      IF r.result THEN "true" ELSE "false"]
                            ELSE firstResult
          /\ lastCall' = [format |-> format, result |-> r.result, probed |-> r.probed]
    /\ callCount' = [callCount EXCEPT ![format] = callCount[format] + 1]
    /\ UNCHANGED <<engineVars, blurVars>>

\* flagInvalidFormat(format)
flagInvalidFormat(format) ==
    /\ invalidFormats' = invalidFormats \cup {format}
    /\ UNCHANGED <<validFormats, probeCount, callCount, firstResult, lastCall,
                   engineVars, blurVars>>

\* --------------------------------------------------------------- blur pass

Scales == {1, 2}
DisplayParams == {<<0, 0, 0, 0>>, <<0, 1, 2, 2>>}
\* PrePassRenderer.getIndex: -1 when the scene's prepass has no such texture
Indices == {-1, 0, 1}
PrePassRenderers == [present : BOOLEAN, wnormalIndex : Indices, depthIndex : Indices]

\* constructor and _createTextures: the output post-process is constructed.
\* The scene starts without a prepass renderer.
BlurInit ==
    /\ worldScale = 1
    /\ debugEnabled = FALSE
    /\ debugSizeParams = <<0, 0, 0, 0>>
    /\ debugPassPP = 0
    /\ ppConstructed = 1
    /\ outputReady = FALSE
    /\ debugReady = FALSE
    /\ prePassRenderer = [present |-> FALSE, wnormalIndex |-> -1, depthIndex |-> -1]
    /\ blurParameters = <<>>
    /\ boundSamplers = {}
    /\ applied = FALSE
    /\ getDebugCalls = 0
    /\ debugReturned = {}
    /\ isReadyResult = [called |-> FALSE, outputReady |-> FALSE, debugExists |-> FALSE,
                        debugReady |-> FALSE, value |-> FALSE]
    /\ passDisposed = FALSE

\* getPassPP(): returns _outputPP
getPassPP ==
    /\ UNCHANGED vars

\* _createDebugPass()
createDebugPass ==
    IF debugPassPP = 0
    THEN /\ debugPassPP' = ppConstructed + 1
         /\ ppConstructed' = ppConstructed + 1
         /\ debugReady' = FALSE
    ELSE UNCHANGED <<debugPassPP, ppConstructed, debugReady>>

\* A mutation of getDebugPassPP: a debug post-process is constructed at
\* every call.
getDebugPassPPAlwaysCreates ==
    /\ getDebugCalls < MaxDebugGets
    /\ getDebugCalls' = getDebugCalls + 1
    /\ debugPassPP' = ppConstructed + 1
    /\ ppConstructed' = ppConstructed + 1
    /\ debugReady' = FALSE
    /\ debugReturned' = debugReturned \cup {debugPassPP'}
    /\ UNCHANGED <<worldScale, debugEnabled, debugSizeParams, outputReady,
                   prePassRenderer, blurParameters, boundSamplers, applied,
                   isReadyResult, passDisposed, engineVars, formatVars>>

\* getDebugPassPP()
getDebugPassPP ==
    /\ getDebugCalls < MaxDebugGets
    /\ getDebugCalls' = getDebugCalls + 1
    /\ IF debugPassPP = 0
       THEN createDebugPass
       ELSE UNCHANGED <<debugPassPP, ppConstructed, debugReady>>
    /\ debugReturned' = debugReturned \cup {debugPassPP'}
    /\ UNCHANGED <<worldScale, debugEnabled, debugSizeParams, outputReady,
                   prePassRenderer, blurParameters, boundSamplers, applied,
                   isReadyResult, passDisposed, engineVars, formatVars>>

\* setWorldScale(scale)
setWorldScale(scale) ==
    /\ worldScale' = scale
    /\ UNCHANGED <<debugEnabled, debugSizeParams, debugPassPP, ppConstructed,
                   outputReady, debugReady, prePassRenderer, blurParameters,
                   boundSamplers, applied, getDebugCalls, debugReturned,
                   isReadyResult, passDisposed, engineVars, formatVars>>

\* debugEnabled = b
setDebugEnabled(b) ==
    /\ debugEnabled' = b
    /\ UNCHANGED <<worldScale, debugSizeParams, debugPassPP, ppConstructed,
                   outputReady, debugReady, prePassRenderer, blurParameters,
                   boundSamplers, applied, getDebugCalls, debugReturned,
                   isReadyResult, passDisposed, engineVars, formatVars>>

\* setDebugDisplayParams(x, y, widthScale, heightScale)
setDebugDisplayParams(params) ==
    /\ debugSizeParams' = params
    /\ UNCHANGED <<worldScale, debugEnabled, debugPassPP, ppConstructed,
                   outputReady, debugReady, prePassRenderer, blurParameters,
                   boundSamplers, applied, getDebugCalls, debugReturned,
                   isReadyResult, passDisposed, engineVars, formatVars>>

\* A mutation of _updatePostProcess: the depth sampler is bound only when the
\* world-normal sampler is.
UpdatePostProcessSamplersTogether(renderer) ==
    IF renderer.present /\ renderer.wnormalIndex >= 0
    THEN {"worldNormalSampler"}
         \cup (IF renderer.depthIndex >= 0 THEN {"linearDepthSampler"} ELSE {})
    ELSE {}

\* the samplers _updatePostProcess binds
UpdatePostProcessSamplers(renderer) ==
    IF renderer.present
    THEN (IF renderer.wnormalIndex >= 0 THEN {"worldNormalSampler"} ELSE {})
         \cup (IF renderer.depthIndex >= 0 THEN {"linearDepthSampler"} ELSE {})
    ELSE {}

\* _outputPP.onApply: _updatePostProcess(effect)
updatePostProcess ==
    /\ blurParameters' = <<1, worldScale, 0, 0>>
    /\ boundSamplers' = UpdatePostProcessSamplers(prePassRenderer)
    /\ applied' = TRUE
    /\ UNCHANGED <<worldScale, debugEnabled, debugSizeParams, debugPassPP,
                   ppConstructed, outputReady, debugReady, prePassRenderer,
                   getDebugCalls, debugReturned, isReadyResult, passDisposed,
                   engineVars, formatVars>>

\* A mutation of isReady: the debug pass's readiness is read the wrong way.
IsReadyInverted(outReady, debugPP, dbgReady) ==
    outReady /\ ~(debugPP # 0 /\ dbgReady)

\* isReady(): _outputPP.isReady() && !(_debugPassPP && !_debugPassPP.isReady())
IsReady(outReady, debugPP, dbgReady) ==
    outReady /\ ~(debugPP # 0 /\ ~dbgReady)

isReady ==
    /\ isReadyResult' = [called |-> TRUE, outputReady |-> outputReady,
                         debugExists |-> debugPassPP # 0, debugReady |-> debugReady,
                         value |-> IsReady(outputReady, debugPassPP, debugReady)]
    /\ UNCHANGED <<worldScale, debugEnabled, debugSizeParams, debugPassPP,
                   ppConstructed, outputReady, debugReady, prePassRenderer,
                   blurParameters, boundSamplers, applied, getDebugCalls,
                   debugReturned, passDisposed, engineVars, formatVars>>

\* dispose() of the pass: both post-processes are disposed, the fields stay
passDispose ==
    /\ ~passDisposed
    /\ passDisposed' = TRUE
    /\ UNCHANGED <<worldScale, debugEnabled, debugSizeParams, debugPassPP,
                   ppConstructed, outputReady, debugReady, prePassRenderer,
                   blurParameters, boundSamplers, applied, getDebugCalls,
                   debugReturned, isReadyResult, engineVars, formatVars>>

\* The rendering engine: a post-process becomes ready, or stops being ready.
PostProcessReadiness(out, dbg) ==
    /\ outputReady' = out
    /\ debugReady' = IF debugPassPP # 0 THEN dbg ELSE debugReady
    /\ UNCHANGED <<worldScale, debugEnabled, debugSizeParams, debugPassPP,
                   ppConstructed, prePassRenderer, blurParameters, boundSamplers,
                   applied, getDebugCalls, debugReturned, isReadyResult,
                   passDisposed, engineVars, formatVars>>

\* The scene's prepass renderer is enabled, disabled or reconfigured.
ScenePrePass(renderer) ==
    /\ prePassRenderer' = renderer
    /\ UNCHANGED <<worldScale, debugEnabled, debugSizeParams, debugPassPP,
                   ppConstructed, outputReady, debugReady, blurParameters,
                   boundSamplers, applied, getDebugCalls, debugReturned,
                   isReadyResult, passDisposed, engineVars, formatVars>>

\* --------------------------------------------------------- specifications

Init == EngineInit /\ FormatInit /\ BlurInit

\* The context, the resume promise and the timer.  Left out are the steps
\* that write only variables these actions never read: the continuations
\* of init (initVars) and the registration of sound instances (instanceVars).
Next ==
    \/ \E i \in InitIds, roi \in BOOLEAN, rop \in BOOLEAN : init(i, roi, rop)
    \/ dispose
    \/ pause
    \/ ResumeCall
    \/ TimerTick
    \/ StateChangeEvent
    \/ ClickEvent
    \/ ClickContinuation
    \/ PlatformRunning
    \/ PlatformResolve
    \/ PlatformRejectResume
    \/ PlatformRejectHandler
    \/ \E s \in SuspendedStates : PlatformInterrupt(s)

Spec == Init /\ [][Next]_vars

\* Timers tick, dispatched events are delivered, and a continuation whose
\* promise has resolved runs; the platform owes nothing.
FairSpec ==
    Spec /\ WF_vars(TimerTick) /\ WF_vars(StateChangeEvent) /\ WF_vars(ClickContinuation)

\* The asynchronous init, CreateAudioEngineAsync and the volume.
NextInit ==
    \/ \E i \in InitIds, roi \in BOOLEAN, rop \in BOOLEAN : init(i, roi, rop)
    \/ \E i \in InitIds : initAudioContextOutput(i)
    \/ \E i \in InitIds : initAudioContextBus(i)
    \/ \E i \in InitIds : initResolve(i)
    \/ CreateAudioEngineAsyncReturn
    \/ \E value \in Volumes : setVolume(value)
    \/ dispose
    \/ pause
    \/ StateChangeEvent
    \/ PlatformRunning
    \/ \E s \in SuspendedStates : PlatformInterrupt(s)

SpecInit == Init /\ [][NextInit]_vars

\* Clicks and the sound instances waiting for one.
NextInteraction ==
    \/ \E i \in InitIds, roi \in BOOLEAN, rop \in BOOLEAN : init(i, roi, rop)
    \/ dispose
    \/ pause
    \/ StateChangeEvent
    \/ ClickEvent
    \/ ClickContinuation
    \/ \E inst \in Instances : startSoundInstanceOnNextUserInteraction(inst)
    \/ PlatformRunning
    \/ PlatformResolve
    \/ PlatformRejectHandler
    \/ \E s \in SuspendedStates : PlatformInterrupt(s)

SpecInteraction == Init /\ [][NextInteraction]_vars

NextFormat ==
    \/ \E f \in Formats, a \in CanPlayTypeAnswers : formatIsValid(f, a)
    \/ \E f \in Formats : flagInvalidFormat(f)

SpecFormat == Init /\ [][NextFormat]_vars

NextBlur ==
    \/ getPassPP
    \/ getDebugPassPP
    \/ \E scale \in Scales : setWorldScale(scale)
    \/ \E b \in BOOLEAN : setDebugEnabled(b)
    \/ \E params \in DisplayParams : setDebugDisplayParams(params)
    \/ updatePostProcess
    \/ isReady
    \/ passDispose
    \/ \E out \in BOOLEAN, dbg \in BOOLEAN : PostProcessReadiness(out, dbg)
    \/ \E renderer \in PrePassRenderers : ScenePrePass(renderer)

\* The pass belongs to a scene; the audio engine beside it does not matter.
InitBlur == Init /\ options.audioContext = "none"

SpecBlur == InitBlur /\ [][NextBlur]_vars

\* ------------------------------------------------------------------ claims

\* C1. Resume de-duplication: of the engine.resume() calls made while the
\* context is not running and no statechange to "running" has been handled
\* in between, exactly one (the first) invokes audioContext.resume(), and
\* every one of them, the first included, hands back the resume in flight.
ResumeDeduplicated ==
    winReturned # {} => (winInvokes = 1 /\ winReturned = {"inflight"})

\* C2. Automatic resume on pause: with resumeOnPause true, once a context
\* that the engine has seen running is suspended or interrupted and the
\* retry timer is armed for it, the engine eventually invokes
\* audioContext.resume() for that suspension, unless the suspension ends.
\* The case taken is the one the claim names: every resume() call since the
\* engine last saw the context running was made while it was running.
AutoResumeOnPause ==
    (/\ resumeOnPause /\ audioContextStarted /\ stateListener
     /\ activeTimers # {}
     /\ ctxState \in SuspendedStates
     /\ winReturned = {}
     /\ ~resumedThisSuspension)
    ~> (resumedThisSuspension \/ ctxState \notin SuspendedStates)

\* C3. Periodic retry: a tick of the retry timer that finds the context still
\* suspended or interrupted and the previous attempt's promise rejected
\* invokes audioContext.resume() again.
RetryAfterRejection ==
    [][(/\ tickPhase' # tickPhase
        /\ ctxState \in SuspendedStates
        /\ resumePromise = "rejected")
       => resumePromise' = "pending"]_vars

InSet(i, S) == IF i \in S THEN 1 ELSE 0

\* When the continuation of a click handler runs, every pending instance is
\* played once and the pending set is left empty.
DrainStep ==
    handlersReady' < handlersReady
    => /\ soundInstances' = {}
       /\ \A i \in Instances : playCount'[i] = playCount[i] + InSet(i, soundInstances)

\* C4 as stated. User-interaction drain: a click handler whose resume has
\* resolved plays every pending instance and empties the set, and each
\* instance is played exactly once per registration, whatever the
\* interleaving of handlers and registrations.
PlayedOncePerRegistration ==
    /\ [](\A i \in Instances : playCount[i] + InSet(i, soundInstances) = regCount[i])
    /\ [][DrainStep]_vars

\* C4 as amended. The same, each instance being played exactly once per
\* registration that added it to the pending set: registering an instance
\* that is already pending adds nothing and leads to no further play.
PlayedOncePerAddition ==
    /\ [](\A i \in Instances : playCount[i] + InSet(i, soundInstances) = addCount[i])
    /\ [][DrainStep]_vars

\* One of two click handlers has drained the set and played i1, registered
\* once; the other is still to run.
PlayedOncePerAdditionWitness ==
    /\ clicks = 2
    /\ handlersReady = 1
    /\ regCount["i1"] = 1
    /\ playCount["i1"] = 1
    /\ soundInstances = {}

\* C5. Format validity memoization: for a format of the table, canPlayType is
\* asked at most once, and every formatIsValid call after the first returns
\* what the first returned, without asking.
FormatMemoized ==
    \A f \in Formats \cap DOMAIN FormatMimeTypeMap :
        /\ probeCount[f] <= 1
        /\ (lastCall.format = f /\ callCount[f] >= 2)
           => /\ ~lastCall.probed
              /\ firstResult[f] = (IF lastCall.result THEN "true" ELSE "false")

\* A third call for mp3, which was probed once and rejected, and a second
\* call for ogg behind it.
FormatMemoizedWitness ==
    /\ callCount["mp3"] = 3
    /\ probeCount["mp3"] = 1
    /\ firstResult["mp3"] = "false"
    /\ lastCall.format = "mp3"
    /\ callCount["ogg"] = 2
    /\ firstResult["ogg"] = "true"

\* C6. Readiness ordering: isReadyPromise is resolved only after an init has
\* registered the statechange listener, the main output is assigned and the
\* default main bus is created; CreateAudioEngineAsync returns only after
\* that; the promise goes from pending to resolved once, and stays resolved.
ReadinessOrdering ==
    /\ [](isReadyPromise = "resolved"
          => /\ \E i \in InitIds : initPc[i] = "done"
             /\ mainOutput # 0
             /\ mainBuses # {}
             /\ readyTransitions = 1)
    /\ [](isReadyPromise = "pending"
          => /\ readyTransitions = 0
             /\ \A i \in InitIds : initPc[i] # "done")
    /\ [](engineReturned => isReadyPromise = "resolved")
    /\ [][\A i \in InitIds : (initPc[i] = "idle" /\ initPc'[i] # "idle") => stateListener']_vars
    /\ [][isReadyPromise = "resolved" => isReadyPromise' = "resolved"]_vars

\* The engine has been returned and a second init call has run to its end.
ReadinessOrderingWitness ==
    /\ engineReturned
    /\ initPc[2] = "done"
    /\ readyTransitions = 1

\* C7. Blur pass readiness: isReady() is (output ready) and (debug pass
\* absent or ready), now and at every isReady() call made; it is false
\* whenever the output pass is not ready.
BlurReadiness ==
    /\ IsReady(outputReady, debugPassPP, debugReady)
       = (outputReady /\ (debugPassPP = 0 \/ debugReady))
    /\ ~outputReady => ~IsReady(outputReady, debugPassPP, debugReady)
    /\ isReadyResult.called
       => /\ isReadyResult.value
             = (isReadyResult.outputReady
                /\ (~isReadyResult.debugExists \/ isReadyResult.debugReady))
          /\ ~isReadyResult.outputReady => ~isReadyResult.value

\* isReady() answered false with the debug pass present and ready, the
\* output pass not ready.
BlurReadinessWitness ==
    /\ isReadyResult.called
    /\ ~isReadyResult.outputReady
    /\ isReadyResult.debugExists
    /\ isReadyResult.debugReady
    /\ ~isReadyResult.value

\* C8. Debug pass laziness: the debug post-process exists iff getDebugPassPP
\* has been called; at most one is ever constructed (beside the output
\* post-process) and every getDebugPassPP call returns it.
DebugPassLazy ==
    /\ (debugPassPP # 0) = (getDebugCalls > 0)
    /\ ppConstructed <= 2
    /\ debugReturned \subseteq {debugPassPP}
    /\ 0 \notin debugReturned

\* Two getDebugPassPP calls, among the other operations of the pass.
DebugPassLazyWitness ==
    /\ getDebugCalls = 2
    /\ debugReturned = {debugPassPP}
    /\ applied
    /\ isReadyResult.called
    /\ debugEnabled
    /\ worldScale = 2
    /\ debugSizeParams # <<0, 0, 0, 0>>

\* C9. resumeOnInteraction false: a click delivered while the option is
\* false invokes no audioContext.resume(), plays nothing and changes
\* nothing of the engine.
ClickIgnoredWhenOptionOff ==
    [][(clicks' # clicks /\ ~resumeOnInteraction)
       => UNCHANGED <<ctorVars, ctxVars, listenerVars, optionVars, audioContextStarted,
                      resumePromise, timerVars, initVars, handlerVars, instanceVars,
                      windowVars, disposed, resumedThisSuspension, tickPhase>>]_vars

\* Two clicks on an engine initialised once, with the option false, while an
\* instance waits and the context is suspended.
ClickIgnoredWhenOptionOffWitness ==
    /\ clicks = 2
    /\ ~resumeOnInteraction
    /\ initPc[2] = "idle"
    /\ soundInstances = Instances
    /\ ctxState = "suspended"
    /\ handlersPending = 0
    /\ \A i \in Instances : playCount[i] = 0

\* C10. One audio context per engine: the engine refers to the supplied
\* context if one was supplied and otherwise to the one context it created,
\* in every state.
OneAudioContext ==
    /\ options.audioContext = "supplied" => (audioContext = "supplied" /\ contextsCreated = 0)
    /\ options.audioContext = "none" => (audioContext = "created" /\ contextsCreated = 1)

\* A supplied context, after init (twice), resume, pause, a click, handled
\* statechange events and dispose.
OneAudioContextWitness ==
    /\ options.audioContext = "supplied"
    /\ initPc[2] # "idle"
    /\ audioContextStarted
    /\ resumedThisSuspension
    /\ clicks > 0
    /\ disposed
    /\ ctxState = "closed"

\* C11 as stated. Engine teardown: in every state after dispose() the
\* context is closed and neither the document click listener nor the
\* context statechange listener is registered.
EngineTeardown ==
    disposed => (ctxState = "closed" /\ ~clickListener /\ ~stateListener)

\* C11. Engine teardown: dispose() leaves the context closed and both
\* listeners removed; on a disposed engine only a further init() call
\* registers a listener again; and while the listeners are removed no click
\* is delivered to the engine and a delivered statechange event changes
\* nothing of the engine, resumes nothing and plays nothing.
EngineTeardownUnlessInit ==
    /\ [][(~disposed /\ disposed')
          => (ctxState' = "closed" /\ ~clickListener' /\ ~stateListener')]_vars
    /\ [][(disposed /\ \A i \in InitIds : (initPc[i] = "idle" => initPc'[i] = "idle"))
          => (clickListener' = clickListener /\ stateListener' = stateListener
              /\ ctxState' = "closed")]_vars
    /\ [][(disposed /\ ~clickListener) => clicks' = clicks]_vars
    /\ [][(disposed /\ ~stateListener /\ eventQueue' < eventQueue)
          => UNCHANGED <<ctorVars, ctxState, listenerVars, optionVars,
                         audioContextStarted, resumePromise, timerVars, initVars,
                         handlerVars, instanceVars, windowVars, volumeVars,
                         resumedThisSuspension>>]_vars

\* A disposed engine, initialised once, whose close event has been
\* delivered, with an instance still pending and clicks still to come.
EngineTeardownWitness ==
    /\ disposed
    /\ initPc[1] # "idle"
    /\ initPc[2] = "idle"
    /\ ctxState = "closed"
    /\ eventQueue = 0
    /\ ~clickListener
    /\ ~stateListener
    /\ soundInstances # {}
    /\ clicks = 1
    /\ audioContextStarted

\* C12. Blur pass on-apply binding: every on-apply callback sets
\* blurParameters to (1, worldScale, 0, 0), binds worldNormalSampler exactly
\* when the scene has a prepass renderer whose world-normal index is >= 0,
\* and binds linearDepthSampler exactly when the scene has a prepass renderer
\* whose depth index is >= 0, each decision on its own index.
OnApplyBinding ==
    [][(applied' # applied \/ blurParameters' # blurParameters
        \/ boundSamplers' # boundSamplers)
       => /\ blurParameters' = <<1, worldScale, 0, 0>>
          /\ ("worldNormalSampler" \in boundSamplers')
               <=> (prePassRenderer.present /\ prePassRenderer.wnormalIndex >= 0)
          /\ ("linearDepthSampler" \in boundSamplers')
               <=> (prePassRenderer.present /\ prePassRenderer.depthIndex >= 0)
          /\ boundSamplers' \subseteq {"worldNormalSampler", "linearDepthSampler"}]_vars

\* An on-apply callback has run with world scale 2 on a scene whose prepass
\* renderer has a depth texture and no world-normal texture.
OnApplyBindingWitness ==
    /\ applied
    /\ worldScale = 2
    /\ blurParameters = <<1, 2, 0, 0>>
    /\ prePassRenderer.present
    /\ prePassRenderer.wnormalIndex = -1
    /\ prePassRenderer.depthIndex = 1
    /\ boundSamplers = {"linearDepthSampler"}

\* C13 as stated. Resume timer arming condition: in every state the
\* resume-on-pause timer is armed only if resumeOnPause is true and the
\* started flag is set.
TimerArmedOnlyIfEnabled ==
    activeTimers # {} => (resumeOnPause /\ audioContextStarted)

\* C13. Resume timer arming condition: in every state the timer is armed only
\* if the started flag is set, and the flag once set is never cleared; a
\* timer is armed only by a handled suspended/interrupted statechange with
\* resumeOnPause true and the flag set; such an event handled before the
\* flag is set arms nothing; and a handled statechange to "running" leaves no
\* timer armed, the flag set and the cached resume promise null.
TimerArmingCondition ==
    /\ [](activeTimers # {} => audioContextStarted)
    /\ [][audioContextStarted => audioContextStarted']_vars
    /\ [][((activeTimers' # {} /\ activeTimers' # activeTimers) \/ rearmed' # rearmed)
          => (resumeOnPause /\ audioContextStarted /\ stateListener
              /\ ctxState \in SuspendedStates /\ eventQueue' < eventQueue)]_vars
    /\ [][(eventQueue' < eventQueue /\ ~audioContextStarted /\ ctxState # "running")
          => (activeTimers' = {} /\ ~audioContextStarted')]_vars
    /\ [][(eventQueue' < eventQueue /\ stateListener /\ ctxState = "running")
          => (activeTimers' = {} /\ audioContextStarted'
              /\ resumePromise' = "null")]_vars

\* A timer was armed and a handled statechange to "running" has cancelled
\* it: the recorded id is of a timer that is no longer armed.
TimerArmingConditionWitness ==
    /\ audioContextStarted
    /\ resumeOnPause
    /\ resumeOnPauseTimerId # 0
    /\ activeTimers = {}
    /\ resumePromise = "null"
    /\ ctxState = "running"
    /\ eventQueue = 0

\* C14. Single timer: in every state at most one resume-on-pause interval
\* timer is armed, and it is the one whose id the engine holds; arming while
\* a timer is armed cancels that timer first.
SingleTimer ==
    /\ Cardinality(activeTimers) <= 1
    /\ activeTimers \subseteq {resumeOnPauseTimerId}

\* A timer has been armed while another was armed, and one is armed now.
SingleTimerWitness ==
    /\ rearmed
    /\ Cardinality(activeTimers) = 1
    /\ ctxState = "interrupted"
    /\ eventQueue = 0

\* C15 as stated. Timer stopped on dispose: in every state after dispose()
\* no resume-on-pause timer is armed, and so no tick of it calls resume()
\* on the disposed engine.
TimerStoppedOnDispose ==
    /\ [](disposed => activeTimers = {})
    /\ [][disposed => tickPhase' = tickPhase]_vars

\* C16 as stated. Explicit pause is respected: from the caller's pause() until
\* the caller's resume() or a click, no step of the engine invokes
\* audioContext.resume().
ExplicitPauseRespected ==
    [][(pauseCalled /\ pauseCalled')
       => ~(resumePromise = "null" /\ resumePromise' # "null")]_vars

\* C17 as stated. Flagged formats are invalid: a formatIsValid call for a
\* format that has been flagged returns false, and no format is in both the
\* valid and the invalid set.
FlaggedFormatsInvalid ==
    /\ [][\A f \in Formats :
            (callCount'[f] # callCount[f] /\ f \in invalidFormats)
            => ~lastCall'.result]_vars
    /\ [](validFormats \cap invalidFormats = {})

\* C18. Volume synchronisation: in every state in which the main output
\* exists, its volume is the engine's volume.
VolumeSynchronised ==
    mainOutput # 0 => mainOutputVolume = volume

\* The engine's volume is not the default, a second init has replaced the
\* main output of the first, and the first init has completed.
VolumeSynchronisedWitness ==
    /\ mainOutput = 2
    /\ initPc[1] = "done"
    /\ volume = 0
    /\ mainOutputVolume = 0

\* C19. Unknown formats: a formatIsValid call for a format that is not a key
\* of the MIME table and is not flagged returns false, asks canPlayType
\* nothing and leaves the valid and the invalid set as they were; such a
\* format is never probed and the valid set holds keys of the table only.
UnknownFormatsRejected ==
    /\ [][\A f \in Formats \ DOMAIN FormatMimeTypeMap :
            (callCount'[f] # callCount[f] /\ f \notin invalidFormats)
            => /\ ~lastCall'.result
               /\ ~lastCall'.probed
               /\ probeCount' = probeCount
               /\ UNCHANGED <<validFormats, invalidFormats>>]_vars
    /\ [](\A f \in Formats \ DOMAIN FormatMimeTypeMap : probeCount[f] = 0)
    /\ [](validFormats \subseteq DOMAIN FormatMimeTypeMap)

\* The unknown format xyz has just been asked about, unflagged, on an engine
\* that holds a valid and an invalid format.
UnknownFormatsRejectedWitness ==
    /\ lastCall.format = "xyz"
    /\ callCount["xyz"] >= 1
    /\ "xyz" \notin invalidFormats
    /\ validFormats = {"ogg"}
    /\ invalidFormats = {"mp3"}
====
